---------------------------- MODULE Spec2Model ----------------------------
(***************************************************************************)
(* MeiliDB: the query enhancer (meilidb-core/src/query_enhancer.rs), the   *)
(* RawDocument builder (meilidb-core/src/raw_document.rs) and the update   *)
(* system of an index (meilidb-data/src/database/index/updates_index.rs). *)
(*                                                                         *)
(* Vectors of the source are modelled as functions over 0..len-1 when the  *)
(* source indexes them (origins) and as sequences when it only iterates    *)
(* or pushes (query, real_to_origin, matches).  A Rust Range a..b is the   *)
(* record [start |-> a, end |-> b].                                        *)
(***************************************************************************)
EXTENDS Integers, Sequences, FiniteSets

VARIABLES
    \* ---- QueryEnhancerBuilder / QueryEnhancer
    query,            \* &[S]: the original query words
    origins,          \* Vec<usize>
    real_to_origin,   \* Vec<(Range<usize>, usize)>, then the IntervalTree
    pc,               \* "builder" before build(), "enhancer" after, "off"
    calls,            \* log of the declare calls made on the builder
    \* ---- one call of rewrite_range_with
    rw,               \* its arguments and, once called, its result
    \* ---- one call of raw_documents_from
    matches,          \* mut Vec<(DocumentId, TmpMatch)>
    highlights,       \* mut Vec<(DocumentId, Highlight)>
    input,            \* the two vectors as they were passed in
    mgroups,          \* what is left of matches.linear_group_by_key
    hgroups,          \* what is left of highlights.linear_group_by_key
    documents,        \* Vec<RawDocument>
    debug_assertions, \* cfg!(debug_assertions): the build profile
    rpc,              \* position in raw_documents_from, "off"
    \* ---- UpdatesIndex and the index it updates
    tree,             \* sled::Tree of the updates: the (id, update) pairs in it
    generated,        \* the last id db.generate_id() gave out
    subscription,     \* the update thread's subscriber: "none", "empty", "set"
    thread,           \* position of the update thread in its loop, "off"
    popped,           \* the (id, update) pop_min gave the loop body
    documents_index,  \* DocumentId -> the stored title, or NoDocument
    words_index,      \* word -> the ids of the documents it is indexed for
    results,          \* ids of the updates whose status is stored
    called,           \* ids of the updates the update callback was called for
    returned,         \* ids update_status_blocking has returned the status of
    finalized,        \* log of the updates finalized, by update id
    \* ---- meilidb-core column sorting and the meilidb-data stores
    sorter,           \* a RawDocument's columns being sorted by a key
    database,         \* Database: cache, persisted indexes, schemas, callers
    main_index,       \* MainIndex: the values under its keys, the last call
    fields,           \* DocumentsIndex: the stored (id, attr) fields, the call
    synonyms,         \* main synonyms set and SynonymsIndex alternatives
    declarations      \* the declarations a caller makes, in an order it picks

enhancer_vars == <<query, origins, real_to_origin, pc, calls>>
raw_vars == <<matches, highlights, input, mgroups, hgroups, documents,
              debug_assertions, rpc>>
updates_vars == <<tree, generated, subscription, thread, popped,
                  documents_index, words_index, results, called, returned,
                  finalized>>
data_vars == <<sorter, database, main_index, fields, synonyms,
               declarations>>
vars == <<enhancer_vars, rw, raw_vars, updates_vars, data_vars>>

(***************************************************************************)
(* Bounds of the model.                                                    *)
(***************************************************************************)
MaxQuery      == 2     \* longest original query
MaxRepl       == 3     \* longest replacement of a declaration
MaxDecl       == 2     \* declare calls on one builder
MaxMatches    == 3     \* longest matches vector
MaxHighlights == 2     \* longest highlights vector
MaxUpdates    == 3     \* updates finalized on one index
MaxCallers    == 2     \* concurrent callers of one Database

Words == {"a", "b"}

SeqsUpTo(S, n) == UNION {[1..k -> S] : k \in 0..n}

Min(a, b) == IF a <= b THEN a ELSE b
Max(a, b) == IF a >= b THEN a ELSE b

(***************************************************************************)
(* Rust helpers.                                                           *)
(***************************************************************************)
\* Range<usize>::len(): 0 for an empty or inverted range
RangeLen(r) == IF r.end > r.start THEN r.end - r.start ELSE 0

Range(a, b) == [start |-> a, end |-> b]

\* usize::saturating_sub
saturating_sub(a, b) == IF a >= b THEN a - b ELSE 0

\* Iterator::skip(n) / Iterator::take(n) on a slice iterator
Skip(s, n) == IF n >= Len(s) THEN <<>> ELSE SubSeq(s, n + 1, Len(s))
Take(s, n) == SubSeq(s, 1, Min(n, Len(s)))

\* Iterator::eq: element by element, both must end together
RECURSIVE IterEq(_, _)
IterEq(a, b) ==
    IF a = <<>> THEN b = <<>>
    ELSE IF b = <<>> THEN FALSE
    ELSE Head(a) = Head(b) /\ IterEq(Tail(a), Tail(b))

(***************************************************************************)
(* rewrite_range_with(query, range, words)                                 *)
(***************************************************************************)
\* (variant: a range as long as the words is not refused)
rewrite_range_with_lt(q, range, words) ==
    IF Len(words) < RangeLen(range) THEN FALSE
    ELSE ~IterEq(Take(Skip(q, range.start), Len(words)), words)

rewrite_range_with(q, range, words) ==
    IF Len(words) <= RangeLen(range)
    THEN FALSE
    ELSE LET original == Take(Skip(q, range.start), Len(words))
         IN  ~IterEq(original, words)

(***************************************************************************)
(* QueryEnhancerBuilder                                                    *)
(***************************************************************************)
\* QueryEnhancerBuilder::new: origins and the identity ranges
new_origins(q) == [o \in 0..(Len(q) - 1) |-> o]

new_real_to_origin(q) ==
    [i \in 1..Len(q) |-> [range |-> Range(i - 1, i), value |-> i - 1]]

\* (variants: the offset is added again; the loop starts at range.start)
shift_origins_add(orig, range, offset) ==
    [o \in DOMAIN orig |->
        IF o >= range.end THEN orig[o] + offset ELSE orig[o]]

shift_origins_from_start(orig, range, offset) ==
    [o \in DOMAIN orig |->
        IF o >= range.start
        THEN orig[o] + saturating_sub(offset, orig[o] - o)
        ELSE orig[o]]

\* (variant: the origins after the range are set to their index plus offset)
shift_origins_set(orig, range, offset) ==
    [o \in DOMAIN orig |-> IF o >= range.end THEN o + offset ELSE orig[o]]

\* the loop of declare over origins.iter_mut().enumerate().skip(range.end)
shift_origins(orig, range, offset) ==
    [o \in DOMAIN orig |->
        IF o >= range.end
        THEN orig[o] + saturating_sub(offset, orig[o] - o)
        ELSE orig[o]]

\* (variant: origins are shifted whenever the words are longer than the range)
declare_origins_always(range, replacement) ==
    IF Len(replacement) > RangeLen(range)
    THEN shift_origins(origins, range, Len(replacement) - RangeLen(range))
    ELSE origins

\* two ranges intersect and neither contains the other
PartialOverlap(r1, r2) ==
    /\ r1.start < r2.end /\ r2.start < r1.end
    /\ ~(r1.start <= r2.start /\ r2.end <= r1.end)
    /\ ~(r2.start <= r1.start /\ r1.end <= r2.end)

\* (variant: a range that partially overlaps the range of an earlier accepted
\* declaration leaves origins alone)
declare_origins_unless_overlap(range, replacement) ==
    IF /\ rewrite_range_with(query, range, replacement)
       /\ ~\E e \in DOMAIN calls :
               calls[e].accepted /\ PartialOverlap(calls[e].range, range)
    THEN shift_origins(origins, range, Len(replacement) - RangeLen(range))
    ELSE origins

\* origins after declare(range, _, replacement)
declare_origins(range, replacement) ==
    IF rewrite_range_with(query, range, replacement)
    THEN shift_origins(origins, range, Len(replacement) - RangeLen(range))
    ELSE origins

\* (variants: tagged with range.end; a real range one slot too long)
declare_element_end(range, real, replacement) ==
    [range |-> Range(real, real + Len(replacement)), value |-> range.end]

declare_element_long(range, real, replacement) ==
    [range |-> Range(real, real + Len(replacement) + 1), value |-> range.start]

\* the (real_range, range.start) pair pushed by declare
declare_element(range, real, replacement) ==
    [range |-> Range(real, real + Len(replacement)), value |-> range.start]

\* the next free slot of the expanded query: the length of the original
\* query plus the lengths of all the replacements declared so far
RECURSIVE SumLen(_)
SumLen(cs) == IF cs = <<>> THEN 0 ELSE Head(cs).len + SumLen(Tail(cs))

NextFree == Len(query) + SumLen(calls)

Declare(range, real, replacement) ==
    /\ pc = "builder"
    /\ Len(calls) < MaxDecl
    /\ origins' = declare_origins(range, replacement)
    /\ real_to_origin' =
           Append(real_to_origin, declare_element(range, real, replacement))
    /\ calls' = Append(calls,
           [range    |-> range,
            real     |-> real,
            len      |-> Len(replacement),
            accepted |-> rewrite_range_with(query, range, replacement)])
    /\ UNCHANGED <<query, pc, rw, raw_vars, updates_vars,
                   data_vars>>

Build ==
    /\ pc = "builder"
    /\ pc' = "enhancer"
    /\ UNCHANGED <<query, origins, real_to_origin, calls, rw, raw_vars, updates_vars,
                   data_vars>>

(***************************************************************************)
(* QueryEnhancer::replacement                                              *)
(***************************************************************************)
Returned(a, b) == [kind |-> "ok", start |-> a, end |-> b]

Panicked(why) == [kind |-> why, start |-> 0, end |-> 0]

\* (variant: the end of a range counts as inside it)
query_point_closed(real) ==
    {i \in DOMAIN real_to_origin :
        /\ real_to_origin[i].range.start <= real
        /\ real <= real_to_origin[i].range.end}

\* IntervalTree::query_point: the elements whose half-open range holds real
query_point(real) ==
    {i \in DOMAIN real_to_origin :
        /\ real_to_origin[i].range.start <= real
        /\ real < real_to_origin[i].range.end}

\* (variants: the last slot of a range is widened by the padding; the origin
\* is taken unshifted)
replacement_of_widened(real, i) ==
    LET range  == real_to_origin[i].range
        origin == real_to_origin[i].value
        n      == real - range.start
    IN  IF range.end - 1 = real
        THEN Returned(origin + n, origin + (origins[origin] - origin) + 1)
        ELSE Returned(origins[origin] + n, origins[origin] + n + 1)

replacement_of_unshifted(real, i) ==
    LET range  == real_to_origin[i].range
        origin == real_to_origin[i].value
        n      == real - range.start
    IN  Returned(origin + n, origin + n + 1)

\* (variant: every slot is widened by the padding)
replacement_of_padded(real, i) ==
    LET range   == real_to_origin[i].range
        origin  == real_to_origin[i].value
        n       == real - range.start
        padding == origins[origin] - origin
    IN  Returned(origins[origin] + n, origins[origin] + n + padding + 1)

\* the body of replacement once the element is found
replacement_of(real, i) ==
    LET range  == real_to_origin[i].range
        origin == real_to_origin[i].value
    IN  IF origin \notin DOMAIN origins
        THEN Panicked("index out of bounds")
        ELSE IF range.end = real
        THEN LET n       == real - range.start
                 padding == origins[origin] - origin
             IN  Returned(origin + n, origin + padding + 1)
        ELSE LET n       == real - range.start
                 origin2 == origins[origin]
             IN  Returned(origin2 + n, origin2 + n + 1)

\* (variant: a real index no range holds is answered with itself)
replacement_or_itself(real) ==
    LET hits == query_point(real)
    IN  IF hits = {}
        THEN {Returned(real, real + 1)}
        ELSE {replacement_of(real, i) : i \in hits} \cup
             (IF Cardinality(hits) > 1
              THEN {Panicked("there must not be another range containing a real")}
              ELSE {})

\* replacement(real): what the call can return or panic with.  With several
\* elements holding real a debug build fails the debug_assert and a release
\* build goes on with the element the tree yields first.
replacement(real) ==
    LET hits == query_point(real)
    IN  IF hits = {}
        THEN {Panicked("real has never been declared")}
        ELSE {replacement_of(real, i) : i \in hits} \cup
             (IF Cardinality(hits) > 1
              THEN {Panicked("there must not be another range containing a real")}
              ELSE {})

(***************************************************************************)
(* The enhancer's specification: a builder on a query, then declare calls  *)
(* that take the next free slot as real, then build.  replacement takes    *)
(* &self: it is the operator above, applied to the built enhancer.         *)
(***************************************************************************)
RewriteOff == [query |-> <<>>, range |-> Range(0, 0), words |-> <<>>,
               called |-> FALSE, result |-> FALSE]

RawOff ==
    /\ matches = <<>>
    /\ highlights = <<>>
    /\ input = <<>>
    /\ mgroups = <<>>
    /\ hgroups = <<>>
    /\ documents = <<>>
    /\ debug_assertions = FALSE
    /\ rpc = "off"

EnhancerOff ==
    /\ query = <<>>
    /\ origins = <<>>
    /\ real_to_origin = <<>>
    /\ pc = "off"
    /\ calls = <<>>

DataOff ==
    /\ sorter = <<>>
    /\ database = <<>>
    /\ main_index = <<>>
    /\ fields = <<>>
    /\ synonyms = <<>>
    /\ declarations = <<>>

UpdatesOff ==
    /\ tree = {}
    /\ generated = 0
    /\ subscription = "none"
    /\ thread = "off"
    /\ popped = <<>>
    /\ documents_index = <<>>
    /\ words_index = <<>>
    /\ results = {}
    /\ called = {}
    /\ returned = {}
    /\ finalized = <<>>

Init ==
    /\ query \in SeqsUpTo(Words, MaxQuery)
    /\ origins = new_origins(query)
    /\ real_to_origin = new_real_to_origin(query)
    /\ pc = "builder"
    /\ calls = <<>>
    /\ rw = RewriteOff
    /\ RawOff
    /\ UpdatesOff
    /\ DataOff

\* the ranges of original words a caller declares: o..o+k inside the query,
\* of at least one word
QueryRanges ==
    {r \in [start : 0..Len(query), end : 0..Len(query)] : r.start < r.end}

\* the replacement words of a declaration: at least one word
Replacements == SeqsUpTo(Words, MaxRepl) \ {<<>>}

DeclareNext ==
    \E range \in QueryRanges, words \in Replacements :
        Declare(range, NextFree, words)

Next == DeclareNext \/ Build

Spec == Init /\ [][Next]_vars

(***************************************************************************)
(* One call of rewrite_range_with on any query, range and words.           *)
(***************************************************************************)
InitRewrite ==
    /\ rw \in [query  : SeqsUpTo(Words, MaxQuery),
               range  : {r \in [start : 0..(MaxQuery + 1), end : 0..(MaxQuery + 1)] :
                            r.start <= r.end},
               words  : SeqsUpTo(Words, MaxRepl),
               called : {FALSE},
               result : {FALSE}]
    /\ EnhancerOff
    /\ RawOff
    /\ UpdatesOff
    /\ DataOff

CallRewrite ==
    /\ ~rw.called
    /\ rw' = [rw EXCEPT !.called = TRUE,
                        !.result = rewrite_range_with(rw.query, rw.range, rw.words)]
    /\ UNCHANGED <<enhancer_vars, raw_vars, updates_vars,
                   data_vars>>

NextRewrite == CallRewrite

SpecRewrite == InitRewrite /\ [][NextRewrite]_vars

(***************************************************************************)
(* Properties of rewrite_range_with                                        *)
(***************************************************************************)
\* word i (from 0) of the query, "" past its end
WordAt(q, i) == IF i < Len(q) THEN q[i + 1] ELSE ""

\* C1: rewrite_range_with(query, o..o+k, words) is true exactly when the m
\* words are more than k and differ, at some position i < m, from the query
\* word at o+i (a position past the end of the query differs)
C1_RewriteIffLongerAndDifferent ==
    rw.called =>
        LET o == rw.range.start
            k == rw.range.end - rw.range.start
            m == Len(rw.words)
        IN  rw.result =
                (/\ m > k
                 /\ \E i \in 0..(m - 1) : WordAt(rw.query, o + i) # rw.words[i + 1])

\* a call accepted although the words begin like the query at o: the
\* slice of the query is cut at its end, so it is shorter than the words
C1_Witness ==
    /\ rw.called
    /\ rw.result
    /\ Len(rw.words) > RangeLen(rw.range)
    /\ rw.range.start + Len(rw.words) > Len(rw.query)
    /\ rw.range.start < Len(rw.query)
    /\ rw.words[1] = rw.query[rw.range.start + 1]

(***************************************************************************)
(* Properties of the enhancer                                              *)
(***************************************************************************)
Built == pc = "enhancer"

\* the one range replacement(real) returns, when it can only return one
Only(a) == {Returned(a, a + 1)}

\* the declare call this step makes, if it makes one (calls is only ever
\* appended to)
DeclaredNow ==
    IF Len(calls') = Len(calls) + 1 THEN {calls'[Len(calls')]} ELSE {}

\* C2: after a single accepted declare(o..o+k, n, m words) on a query of n
\* words, original words before the end of the range keep their index, those
\* after it are shifted by m-k, and replacement word j maps to o+j
C2_SingleAcceptedDeclare ==
    (Built /\ Len(calls) = 1 /\ calls[1].accepted /\ calls[1].real = Len(query)) =>
        LET n == Len(query)
            o == calls[1].range.start
            k == calls[1].range.end - calls[1].range.start
            m == calls[1].len
        IN  /\ \A i \in 0..(n - 1) :
                   replacement(i) = Only(IF i < o + k THEN i ELSE i + (m - k))
            /\ \A j \in 0..(m - 1) : replacement(n + j) = Only(o + j)

\* a single accepted declaration with an original word after its range
C2_Witness ==
    /\ Built
    /\ Len(calls) = 1
    /\ calls[1].accepted
    /\ calls[1].range.end < Len(query)
    /\ calls[1].len - RangeLen(calls[1].range) = 2

\* C3: a rejected declare leaves origins, and so replacement(i) of every
\* original index i, unchanged, and still records its mapping:
\* replacement(real+j) = origins[o]+j .. origins[o]+j+1
C3_RejectedDeclareStep ==
    \A c \in DeclaredNow :
        ~c.accepted =>
            /\ origins' = origins
            /\ \A i \in 0..(Len(query) - 1) : replacement(i)' = replacement(i)
            /\ \A j \in 0..(c.len - 1) :
                   replacement(c.real + j)' = Only(origins[c.range.start] + j)

C3_RejectedDeclareIsInert == [][C3_RejectedDeclareStep]_vars

\* a rejected declaration made after an accepted one that shifted its first
\* original word
C3_Witness ==
    /\ Len(calls) = 2
    /\ calls[1].accepted
    /\ ~calls[2].accepted
    /\ origins[calls[2].range.start] > calls[2].range.start

\* the largest m-k among the accepted declarations of cs whose range ends at
\* or before p, 0 when there is none
LargestOffset(cs, p) ==
    LET offs == {cs[i].len - RangeLen(cs[i].range) :
                    i \in {c \in DOMAIN cs : cs[c].accepted /\ cs[c].range.end <= p}}
                \cup {0}
    IN  CHOOSE d \in offs : \A e \in offs : e <= d

\* C4: an accepted declare(o..o+k, _, m words) sets origins[p] to
\* max(origins[p], p+(m-k)) for p >= o+k and leaves the others, so that
\* origins[p]-p is the largest m-k among the accepted declarations ending at
\* or before p
C4_DeclareStep ==
    \A c \in DeclaredNow :
        c.accepted =>
            \A p \in DOMAIN origins :
                origins'[p] =
                    IF p >= c.range.end
                    THEN Max(origins[p], p + (c.len - RangeLen(c.range)))
                    ELSE origins[p]

C4_ClosedForm ==
    \A p \in DOMAIN origins : origins[p] - p = LargestOffset(calls, p)

C4_OffsetsCompose == [][C4_DeclareStep /\ C4_ClosedForm']_vars

\* two accepted declarations of different growth end before the same word
C4_Witness ==
    /\ Len(calls) = 2
    /\ calls[1].accepted
    /\ calls[2].accepted
    /\ calls[1].len - RangeLen(calls[1].range) >
           calls[2].len - RangeLen(calls[2].range)
    /\ \E p \in DOMAIN origins :
           calls[1].range.end <= p /\ calls[2].range.end <= p

\* the real indices of the slots of element i but the last one, and the last
Slots(i) ==
    real_to_origin[i].range.start .. (real_to_origin[i].range.end - 1)

LastSlot(i) == real_to_origin[i].range.end - 1

\* C5: a real index of a recorded range R tagged origin that is not the last
\* slot of R is replaced by the one index origins[origin] + (real - R.start)
C5_InnerSlotFollowsShiftedOrigin ==
    Built =>
        \A i \in DOMAIN real_to_origin :
            \A real \in Slots(i) \ {LastSlot(i)} :
                replacement(real) =
                    Only(origins[real_to_origin[i].value]
                         + (real - real_to_origin[i].range.start))

\* an enhancer with a replacement of several words whose first original
\* word has been shifted
C5_Witness ==
    /\ Built
    /\ \E i \in DOMAIN real_to_origin :
           /\ RangeLen(real_to_origin[i].range) >= 2
           /\ origins[real_to_origin[i].value] > real_to_origin[i].value

\* C6 as stated: the last slot of a range returns the widened range
\* [origin + n, origin + padding + 1), padding = origins[origin] - origin
C6_LastSlotIsWidened ==
    Built =>
        \A i \in DOMAIN real_to_origin :
            \A real \in Slots(i) \cap {LastSlot(i)} :
                LET origin  == real_to_origin[i].value
                    n       == real - real_to_origin[i].range.start
                    padding == origins[origin] - origin
                IN  replacement(real) =
                        {Returned(origin + n, origin + padding + 1)}

\* C6 amended: the last slot of a range is replaced like every other slot, by
\* the one index origins[origin] + n; the lookup is half-open, real is never
\* R.end and the widened range is never returned
C6_LastSlotIsSingleIndex ==
    Built =>
        \A i \in DOMAIN real_to_origin :
            \A real \in Slots(i) \cap {LastSlot(i)} :
                LET origin == real_to_origin[i].value
                    n      == real - real_to_origin[i].range.start
                IN  /\ replacement(real) = Only(origins[origin] + n)
                    /\ real_to_origin[i].range.end # real

\* the last slot of a replacement of several words, whose first original
\* word has been shifted (padding > 0), is replaced by one shifted index
C6_Witness ==
    /\ Built
    /\ \E i \in DOMAIN real_to_origin :
           LET origin == real_to_origin[i].value
               n      == LastSlot(i) - real_to_origin[i].range.start
           IN  /\ n >= 1
               /\ origins[origin] - origin > 0
               /\ Returned(origins[origin] + n, origins[origin] + n + 1)
                      \in replacement(LastSlot(i))

\* the real indices that were declared
DeclaredReals == UNION {Slots(i) : i \in DOMAIN real_to_origin}

\* the sum of m-k over the accepted declarations
RECURSIVE Growth(_)
Growth(cs) ==
    IF cs = <<>> THEN 0
    ELSE (IF Head(cs).accepted THEN Head(cs).len - RangeLen(Head(cs).range) ELSE 0)
         + Growth(Tail(cs))

\* C7 as stated: replacement(r) of a declared r is a non-empty range of
\* indices smaller than the number of words of the original query
C7_TotalBelowOriginalLength ==
    Built =>
        \A real \in DeclaredReals :
            \A r \in replacement(real) :
                r.kind = "ok" /\ r.start < r.end /\ r.end <= Len(query)

\* C7 amended: replacement(r) of a declared r is a range of exactly one
\* index, smaller than the number of words of the original query plus the
\* sum of m-k over the accepted declarations
C7_TotalBelowGrownLength ==
    Built =>
        LET grown == Len(query) + Growth(calls)
        IN  \A real \in DeclaredReals :
                \A r \in replacement(real) :
                    /\ r.kind = "ok"
                    /\ r.end = r.start + 1
                    /\ r.end <= grown

\* a declared real index replaced by the last index of the grown query,
\* which is not an index of the original query
C7_Witness ==
    /\ Built
    /\ Growth(calls) > 0
    /\ \E real \in DeclaredReals :
           Returned(Len(query) + Growth(calls) - 1, Len(query) + Growth(calls))
               \in replacement(real)

\* the original indices replacement returns for the m slots from real on
Covered(real, m) ==
    UNION {UNION {r.start .. (r.end - 1) : r \in replacement(real + i)} :
              i \in 0..(m - 1)}

AllReturn(real, m) ==
    \A i \in 0..(m - 1) : \A r \in replacement(real + i) : r.kind = "ok"

\* C8 as stated: the slots of an accepted declaration (o..o+k, real, m words)
\* are replaced within [o, o+k] and cover exactly [o, o+k]
C8_RoundTripCoversRange ==
    Built =>
        \A c \in DOMAIN calls :
            calls[c].accepted =>
                /\ AllReturn(calls[c].real, calls[c].len)
                /\ Covered(calls[c].real, calls[c].len) =
                       calls[c].range.start .. calls[c].range.end

\* C8 amended: slot i of an accepted declaration (o..o+k, real, m words) is
\* replaced by the one index origins[o]+i, so the slots cover exactly
\* [origins[o], origins[o]+m-1]; this is [o, o+k] when m = k+1 and o has not
\* been shifted
C8_RoundTripCoversGrownRange ==
    Built =>
        \A c \in DOMAIN calls :
            calls[c].accepted =>
                LET o == calls[c].range.start
                    k == RangeLen(calls[c].range)
                    m == calls[c].len
                IN  /\ \A i \in 0..(m - 1) :
                           replacement(calls[c].real + i) = Only(origins[o] + i)
                    /\ Covered(calls[c].real, m) =
                           origins[o] .. (origins[o] + m - 1)
                    /\ (m = k + 1 /\ origins[o] = o) =>
                           Covered(calls[c].real, m) = o .. (o + k)

\* an accepted declaration that grows by two words and whose first original
\* word has been shifted
C8_Witness ==
    /\ Built
    /\ \E c \in DOMAIN calls :
           /\ calls[c].accepted
           /\ calls[c].len >= RangeLen(calls[c].range) + 2
           /\ origins[calls[c].range.start] > calls[c].range.start

\* every declare call so far took the next free slot as its real
AllNextFree ==
    \A c \in DOMAIN calls :
        calls[c].real = Len(query) + SumLen(SubSeq(calls, 1, c - 1))

Overlap(r1, r2) ==
    \E x \in r1.start .. (r1.end - 1) : r2.start <= x /\ x < r2.end

\* C9: when every declare call takes the next free slot, no two recorded
\* ranges overlap, and every real index below the expanded length is in
\* exactly one range: the assertion of replacement never fails
C9_RangesNeverOverlap ==
    (Built /\ AllNextFree) =>
        /\ \A i, j \in DOMAIN real_to_origin :
               i < j => ~Overlap(real_to_origin[i].range, real_to_origin[j].range)
        /\ \A real \in 0..(NextFree - 1) :
               /\ Cardinality(query_point(real)) = 1
               /\ \A r \in replacement(real) : r.kind = "ok"

\* an enhancer built after two declarations
C9_Witness ==
    /\ Built
    /\ Len(calls) = 2
    /\ AllNextFree
    /\ Len(real_to_origin) = Len(query) + 2

(***************************************************************************)
(* raw_documents_from(matches, highlights)                                 *)
(***************************************************************************)
DocumentIds == {1, 2}

\* TmpMatch { query_index, distance, attribute, word_index, is_exact }
TmpMatches ==
    {[query_index |-> 0, distance |-> 0, attribute |-> 0, word_index |-> 0,
      is_exact |-> TRUE],
     [query_index |-> 1, distance |-> 1, attribute |-> 1, word_index |-> 1,
      is_exact |-> FALSE]}

\* Highlight { attribute, char_index, char_length }
Highlights ==
    {[attribute |-> 0, char_index |-> 0, char_length |-> 1],
     [attribute |-> 1, char_index |-> 2, char_length |-> 3]}

\* the sequences s can be reordered into
Reorderings(s) ==
    {[i \in DOMAIN s |-> s[p[i]]] :
        p \in {q \in [DOMAIN s -> DOMAIN s] : \A i, j \in DOMAIN s : i # j => q[i] # q[j]}}

\* (variant: the vector is left in any order)
par_sort_any_order(s) == Reorderings(s)

\* slice::par_sort_unstable_by_key(|(id, _)| *id): some reordering in
\* ascending id order; the order of elements of equal id is not kept
par_sort_unstable_by_key(s) ==
    {t \in Reorderings(s) :
        \A i, j \in DOMAIN t : i < j => t[i].id <= t[j].id}

\* (variant: every element is a group of its own)
linear_group_singletons(s) == [i \in DOMAIN s |-> <<s[i]>>]

\* linear_group_by_key(|(id, _)| *id): the runs of consecutive elements of
\* equal id, none of them empty
RECURSIVE linear_group_by_key(_)
linear_group_by_key(s) ==
    IF s = <<>> THEN <<>>
    ELSE LET same == {n \in 1..Len(s) : \A i \in 1..n : s[i].id = s[1].id}
             n    == CHOOSE x \in same : \A y \in same : y <= x
         IN  <<SubSeq(s, 1, n)>> \o linear_group_by_key(SubSeq(s, n + 1, Len(s)))

\* (variant: the distance column is filled from the group read backwards)
raw_document_crossed(mgroup, hgroup) ==
    [id          |-> mgroup[1].id,
     query_index |-> [i \in 1..Len(mgroup) |-> mgroup[i].m.query_index],
     distance    |-> [i \in 1..Len(mgroup) |-> mgroup[Len(mgroup) + 1 - i].m.distance],
     attribute   |-> [i \in 1..Len(mgroup) |-> mgroup[i].m.attribute],
     word_index  |-> [i \in 1..Len(mgroup) |-> mgroup[i].m.word_index],
     is_exact    |-> [i \in 1..Len(mgroup) |-> mgroup[i].m.is_exact],
     highlights  |-> [i \in 1..Len(hgroup) |-> hgroup[i].h]]

\* the RawDocument assembled from one group of matches and one of highlights
raw_document(mgroup, hgroup) ==
    [id          |-> mgroup[1].id,
     query_index |-> [i \in 1..Len(mgroup) |-> mgroup[i].m.query_index],
     distance    |-> [i \in 1..Len(mgroup) |-> mgroup[i].m.distance],
     attribute   |-> [i \in 1..Len(mgroup) |-> mgroup[i].m.attribute],
     word_index  |-> [i \in 1..Len(mgroup) |-> mgroup[i].m.word_index],
     is_exact    |-> [i \in 1..Len(mgroup) |-> mgroup[i].m.is_exact],
     highlights  |-> [i \in 1..Len(hgroup) |-> hgroup[i].h]]

InitRaw ==
    /\ matches \in SeqsUpTo([id : DocumentIds, m : TmpMatches], MaxMatches)
    /\ highlights \in SeqsUpTo([id : DocumentIds, h : Highlights], MaxHighlights)
    /\ input = [matches |-> matches, highlights |-> highlights]
    /\ mgroups = <<>>
    /\ hgroups = <<>>
    /\ documents = <<>>
    /\ debug_assertions \in BOOLEAN
    /\ rpc = "sort_matches"
    /\ rw = RewriteOff
    /\ EnhancerOff
    /\ UpdatesOff
    /\ DataOff

SortMatches ==
    /\ rpc = "sort_matches"
    /\ matches' \in par_sort_unstable_by_key(matches)
    /\ rpc' = "sort_highlights"
    /\ UNCHANGED <<highlights, input, mgroups, hgroups, documents,
                   debug_assertions, rw, enhancer_vars, updates_vars,
                   data_vars>>

\* the second sort, then the group iterators and the empty documents vector
SortHighlights ==
    /\ rpc = "sort_highlights"
    /\ highlights' \in par_sort_unstable_by_key(highlights)
    /\ documents' = <<>>
    /\ mgroups' = linear_group_by_key(matches)
    /\ hgroups' = linear_group_by_key(highlights')
    /\ rpc' = "zip"
    /\ UNCHANGED <<matches, input, debug_assertions, rw, enhancer_vars, updates_vars,
                   data_vars>>

\* zip ends with the shorter of the two iterators
ZipEnd ==
    /\ rpc = "zip"
    /\ mgroups = <<>> \/ hgroups = <<>>
    /\ rpc' = "done"
    /\ UNCHANGED <<matches, highlights, input, mgroups, hgroups, documents,
                   debug_assertions, rw, enhancer_vars, updates_vars,
                   data_vars>>

\* debug_assert_eq!(mgroup[0].0, hgroup[0].0) fails: debug builds only
ZipAssertFails ==
    /\ rpc = "zip"
    /\ mgroups # <<>> /\ hgroups # <<>>
    /\ debug_assertions
    /\ Head(mgroups)[1].id # Head(hgroups)[1].id
    /\ rpc' = "panicked"
    /\ UNCHANGED <<matches, highlights, input, mgroups, hgroups, documents,
                   debug_assertions, rw, enhancer_vars, updates_vars,
                   data_vars>>

\* one turn of the loop: a document is pushed
ZipPush ==
    /\ rpc = "zip"
    /\ mgroups # <<>> /\ hgroups # <<>>
    /\ ~(debug_assertions /\ Head(mgroups)[1].id # Head(hgroups)[1].id)
    /\ documents' = Append(documents, raw_document(Head(mgroups), Head(hgroups)))
    /\ mgroups' = Tail(mgroups)
    /\ hgroups' = Tail(hgroups)
    /\ UNCHANGED <<matches, highlights, input, debug_assertions, rpc, rw,
                   enhancer_vars, updates_vars,
                   data_vars>>

NextRaw == SortMatches \/ SortHighlights \/ ZipEnd \/ ZipAssertFails \/ ZipPush

SpecRaw == InitRaw /\ [][NextRaw]_vars

(***************************************************************************)
(* Properties of raw_documents_from                                        *)
(***************************************************************************)
Returns == rpc = "done"

\* how many of the matches passed in carry the id
MatchesOf(id) ==
    Cardinality({i \in DOMAIN input.matches : input.matches[i].id = id})

\* C10: the five match columns of every RawDocument returned have one and
\* the same length, the number of matches passed in that carry its id, and
\* it is at least 1
C10_ColumnLengthParity ==
    Returns =>
        \A d \in DOMAIN documents :
            LET doc == documents[d]
                N   == Len(doc.query_index)
            IN  /\ Len(doc.distance) = N
                /\ Len(doc.attribute) = N
                /\ Len(doc.word_index) = N
                /\ Len(doc.is_exact) = N
                /\ N = MatchesOf(doc.id)
                /\ N >= 1

\* two documents are returned, one of them with two matches that were not
\* next to each other in the vector passed in
C10_Witness ==
    /\ Returns
    /\ Len(documents) = 2
    /\ Len(input.matches) = 3
    /\ input.matches[1].id = input.matches[3].id
    /\ input.matches[1].id # input.matches[2].id

\* the ids the matches, and the highlights, passed in carry
MatchIds == {input.matches[i].id : i \in DOMAIN input.matches}
HighlightIds == {input.highlights[i].id : i \in DOMAIN input.highlights}
SameIds == MatchIds = HighlightIds

\* the matches, and the highlights, passed in with the id, in input order
InputMatches(id) ==
    LET s == SelectSeq(input.matches, LAMBDA x : x.id = id)
    IN  [i \in DOMAIN s |-> s[i].m]
InputHighlights(id) ==
    LET s == SelectSeq(input.highlights, LAMBDA x : x.id = id)
    IN  [i \in DOMAIN s |-> s[i].h]

\* row i of the five columns of a document, and all its rows
Row(doc, i) ==
    [query_index |-> doc.query_index[i], distance |-> doc.distance[i],
     attribute |-> doc.attribute[i], word_index |-> doc.word_index[i],
     is_exact |-> doc.is_exact[i]]
Rows(doc) == [i \in DOMAIN doc.query_index |-> Row(doc, i)]

\* C11: when the matches and the highlights carry the same set of ids the
\* function returns, with one RawDocument per distinct id in strictly
\* ascending id order; the rows of a document are the matches passed in
\* with its id, each in exactly one row with its five fields together, and
\* its highlights are the highlights passed in with its id
C11_OneDocumentPerId ==
    SameIds =>
        /\ rpc # "panicked"
        /\ Returns =>
            /\ {documents[d].id : d \in DOMAIN documents} = MatchIds
            /\ \A d, e \in DOMAIN documents :
                    d < e => documents[d].id < documents[e].id
            /\ \A d \in DOMAIN documents :
                    /\ Rows(documents[d]) \in
                            Reorderings(InputMatches(documents[d].id))
                    /\ documents[d].highlights \in
                            Reorderings(InputHighlights(documents[d].id))

\* two documents are returned for ids that came interleaved, one of them
\* with two different matches
C11_Witness ==
    /\ Returns
    /\ SameIds
    /\ Len(documents) = 2
    /\ input.matches[1].id = 2
    /\ input.highlights[1].id = 2
    /\ \E d \in DOMAIN documents :
            /\ Len(documents[d].query_index) = 2
            /\ Row(documents[d], 1) # Row(documents[d], 2)

\* C12: when the two sides do not carry the same set of ids the function
\* aborts, so whatever it returns has, for every id that has matches, a
\* document, and no document carries the highlights of another id
C12_MismatchIsFatal ==
    Returns =>
        /\ MatchIds \subseteq {documents[d].id : d \in DOMAIN documents}
        /\ \A d \in DOMAIN documents :
                documents[d].highlights \in
                    Reorderings(InputHighlights(documents[d].id))

\* the two ways the function returns on sides that differ: a document
\* that has matches is missing, or one carries the highlights of another id
C12_DroppedDocument ==
    /\ Returns
    /\ debug_assertions
    /\ \E id \in MatchIds : \A d \in DOMAIN documents : documents[d].id # id
C12_ForeignHighlights ==
    /\ Returns
    /\ ~debug_assertions
    /\ \E d \in DOMAIN documents, i \in DOMAIN input.highlights :
            /\ input.highlights[i].id # documents[d].id
            /\ input.highlights[i].id \notin MatchIds
            /\ documents[d].highlights = <<input.highlights[i].h>>

\* C20 as the specification words it: the sorts are stable, so the rows of
\* every document returned are the matches passed in with its id in their
\* input order, and its highlights are the highlights of one id in their
\* input order
C20_SortsAreStable ==
    Returns =>
        \A d \in DOMAIN documents :
            /\ Rows(documents[d]) = InputMatches(documents[d].id)
            /\ \E id \in HighlightIds :
                    documents[d].highlights = InputHighlights(id)

\* C20: the sorts are par_sort_unstable_by_key: the rows of every document
\* returned are the matches passed in with its id, each once, and its
\* highlights are the highlights passed in with one id, each once, in an
\* order that need not be the order of the input
C20_SortsKeepGroupsOnly ==
    Returns =>
        \A d \in DOMAIN documents :
            /\ Rows(documents[d]) \in Reorderings(InputMatches(documents[d].id))
            /\ \E id \in HighlightIds :
                    documents[d].highlights \in Reorderings(InputHighlights(id))

\* a document is returned whose two different rows, and whose two different
\* highlights, come in the reverse of their input order
C20_Witness ==
    /\ Returns
    /\ \E d \in DOMAIN documents :
            LET doc == documents[d]
                ms  == InputMatches(doc.id)
                hs  == InputHighlights(doc.id)
            IN  /\ Len(ms) = 2 /\ ms[1] # ms[2]
                /\ Rows(doc) = <<ms[2], ms[1]>>
                /\ Len(hs) = 2 /\ hs[1] # hs[2]
                /\ doc.highlights = <<hs[2], hs[1]>>

(***************************************************************************)
(* A builder on a query of MaxQuery + 1 words and a pair of declare calls, *)
(* so that the two original ranges can partially overlap.  The caller      *)
(* passes real: the first call may leave one index free below its range.   *)
(***************************************************************************)
InitPair ==
    /\ query \in [1..(MaxQuery + 1) -> Words]
    /\ origins = new_origins(query)
    /\ real_to_origin = new_real_to_origin(query)
    /\ pc = "builder"
    /\ calls = <<>>
    /\ rw = RewriteOff
    /\ RawOff
    /\ UpdatesOff
    /\ DataOff

\* the end of the highest range recorded so far
TopReal ==
    LET ends == {real_to_origin[i].range.end : i \in DOMAIN real_to_origin}
    IN  CHOOSE e \in ends : \A f \in ends : f <= e

DeclareFirst ==
    /\ calls = <<>>
    /\ \E range \in QueryRanges, words \in Replacements, real \in {TopReal, TopReal + 1} :
           Declare(range, real, words)

DeclareSecond ==
    /\ Len(calls) = 1
    /\ \E range \in QueryRanges, words \in Replacements :
           Declare(range, TopReal, words)

NextPair == DeclareFirst \/ DeclareSecond \/ Build

SpecPair == InitPair /\ [][NextPair]_vars

\* C18: replacement(real) on a real index that no recorded range holds
\* panics with 'real has never been declared' and returns no range; on a
\* real index some recorded range holds it returns a range and does not panic
C18_UndeclaredRealPanics ==
    Built =>
        \A real \in 0..(TopReal + 1) :
            IF real \in DeclaredReals
            THEN /\ replacement(real) # {}
                 /\ \A r \in replacement(real) : r.kind = "ok"
            ELSE replacement(real) = {Panicked("real has never been declared")}

\* an enhancer built after two declarations, the first of which left the
\* real index Len(query) free: it panics, the index after it does not
C18_Witness ==
    /\ Built
    /\ Len(calls) = 2
    /\ Len(query) \notin DeclaredReals
    /\ Len(query) < TopReal
    /\ replacement(Len(query)) = {Panicked("real has never been declared")}
    /\ \E r \in replacement(Len(query) + 1) : r.kind = "ok"

\* the declare call of this step has a range that partially overlaps the
\* range of an earlier accepted call
OverlapsAccepted(c) ==
    \E e \in DOMAIN calls :
        calls[e].accepted /\ PartialOverlap(calls[e].range, c.range)

\* C19 as the specification words it: a declaration whose range partially
\* overlaps the range of an earlier accepted declaration is rejected and
\* does not change origins
C19_OverlapRejectedStep ==
    \A c \in DeclaredNow :
        OverlapsAccepted(c) => (~c.accepted /\ origins' = origins)

C19_PartialOverlapIsRejected == [][C19_OverlapRejectedStep]_vars

\* C19: declare makes no difference for a range that partially overlaps the
\* range of an earlier accepted declaration: it is inert only when the
\* rewrite predicate rejects it, as it does whenever the words are no longer
\* than the range, and when accepted it shifts every origin from the end of
\* its range on to at least its own offset
C19_OverlapDeclaredStep ==
    \A c \in DeclaredNow :
        OverlapsAccepted(c) =>
            /\ c.len <= RangeLen(c.range) => ~c.accepted
            /\ ~c.accepted => origins' = origins
            /\ c.accepted =>
                   origins' =
                       [p \in DOMAIN origins |->
                           IF p >= c.range.end
                           THEN Max(origins[p], p + (c.len - RangeLen(c.range)))
                           ELSE origins[p]]

C19_PartialOverlapIsNotDetected == [][C19_OverlapDeclaredStep]_vars

\* the second declaration partially overlaps the accepted first one, is
\* accepted too and has shifted an origin
C19_Witness ==
    /\ Len(calls) = 2
    /\ calls[1].accepted /\ calls[2].accepted
    /\ PartialOverlap(calls[1].range, calls[2].range)
    /\ \E p \in DOMAIN origins :
           /\ p >= calls[2].range.end
           /\ origins[p] = p + (calls[2].len - RangeLen(calls[2].range))
           /\ origins[p] > p

(***************************************************************************)
(* The update system of an index (meilidb-data).  A client finalizes       *)
(* documents additions and deletions, which are pushed on the updates     *)
(* tree, and waits for their status; the thread UpdatesIndex::new spawns   *)
(* pops them in id order.  The loop of the thread is the one of            *)
(* updates_index.rs; what it does with an update, the push and the         *)
(* client's calls follow tests/updates.rs.  A document is an identifier    *)
(* and the one word of its title.                                          *)
(***************************************************************************)
core_vars == <<enhancer_vars, rw, raw_vars, data_vars>>

NoDocument == "none"

Additions == [kind : {"addition"}, doc : DocumentIds, title : Words]
Deletions == [kind : {"deletion"}, doc : DocumentIds, title : {NoDocument}]

\* (variant: the fields of the document go, its words stay indexed)
apply_documents_deletion_fields_only(docs, words, id) ==
    [documents |-> [docs EXCEPT ![id] = NoDocument], words |-> words]

\* a documents deletion applied: the document is neither stored nor indexed
apply_documents_deletion(docs, words, id) ==
    [documents |-> [docs EXCEPT ![id] = NoDocument],
     words     |-> [w \in DOMAIN words |-> words[w] \ {id}]]

\* (variants: the document is stored and not indexed; the words of the
\* version it replaces stay indexed)
apply_documents_addition_unindexed(docs, words, id, title) ==
    LET d == apply_documents_deletion(docs, words, id)
    IN  [documents |-> [d.documents EXCEPT ![id] = title], words |-> d.words]

apply_documents_addition_over(docs, words, id, title) ==
    [documents |-> [docs EXCEPT ![id] = title],
     words     |-> [words EXCEPT ![title] = @ \cup {id}]]

\* a documents addition applied: the version of the document indexed before,
\* if any, is deleted, then the document is stored and its word indexed
apply_documents_addition(docs, words, id, title) ==
    LET d == apply_documents_deletion(docs, words, id)
    IN  [documents |-> [d.documents EXCEPT ![id] = title],
         words     |-> [d.words EXCEPT ![title] = @ \cup {id}]]

\* (variant: the status is there as soon as the update has left the tree)
update_status_popped(update_id) ==
    update_id \notin {t.id : t \in tree}

\* index.update_status(update_id) is Some
update_status(update_id) == update_id \in results

\* index.query_builder().query(word, ..): the ids of the documents found
query_builder_query(word) == words_index[word]

\* index.document(None, id)
document(id) == documents_index[id]

InitUpdates ==
    /\ tree = {}
    /\ generated = 0
    /\ subscription = "none"
    /\ thread = "subscribe"
    /\ popped = <<>>
    /\ documents_index = [d \in DocumentIds |-> NoDocument]
    /\ words_index = [w \in Words |-> {}]
    /\ results = {}
    /\ called = {}
    /\ returned = {}
    /\ finalized = <<>>
    /\ rw = RewriteOff
    /\ EnhancerOff
    /\ RawOff
    /\ DataOff

\* push_documents_addition, push_documents_deletion: an id is generated and
\* the update inserted under it, which sends Event::Set to the subscriber
push(update) ==
    /\ generated < MaxUpdates
    /\ generated' = generated + 1
    /\ tree' = tree \cup {[id |-> generated', update |-> update]}
    /\ subscription' = IF subscription = "none" THEN "none" ELSE "set"
    /\ finalized' = Append(finalized, update)
    /\ UNCHANGED <<thread, popped, documents_index, words_index, results,
                   called, returned, core_vars>>

\* addition.update_document(doc); addition.finalize()
FinalizeAddition == \E update \in Additions : push(update)

\* deletion.delete_document(doc); deletion.finalize()
FinalizeDeletion == \E update \in Deletions : push(update)

\* index.update_status_blocking(update_id) returns
UpdateStatusBlocking ==
    \E update_id \in 1..generated :
        /\ update_id \notin returned
        /\ update_status(update_id)
        /\ returned' = returned \cup {update_id}
        /\ UNCHANGED <<tree, generated, subscription, thread, popped,
                       documents_index, words_index, results, called,
                       finalized, core_vars>>

\* (variant: the thread goes on to drain the tree without a subscriber)
SubscribeNot ==
    /\ thread = "subscribe"
    /\ thread' = "pop_min"
    /\ UNCHANGED <<tree, generated, subscription, popped, documents_index,
                   words_index, results, called, returned, finalized,
                   core_vars>>

\* let mut subscription = tree_clone.watch_prefix(vec![])
Subscribe ==
    /\ thread = "subscribe"
    /\ subscription' = "empty"
    /\ thread' = "pop_min"
    /\ UNCHANGED <<tree, generated, popped, documents_index, words_index,
                   results, called, returned, finalized, core_vars>>

\* tree_clone.pop_min() is Some((id, update)); the Event::Del it sends is
\* not one event_is_set lets through
PopMin ==
    /\ thread = "pop_min"
    /\ tree # {}
    /\ LET min == CHOOSE t \in tree : \A u \in tree : t.id <= u.id
       IN  /\ tree' = tree \ {min}
           /\ popped' = <<min>>
    /\ thread' = "apply"
    /\ UNCHANGED <<generated, subscription, documents_index, words_index,
                   results, called, returned, finalized, core_vars>>

\* tree_clone.pop_min() is None: the while loop is left
PopMinNone ==
    /\ thread = "pop_min"
    /\ tree = {}
    /\ thread' = "blocked"
    /\ UNCHANGED <<tree, generated, subscription, popped, documents_index,
                   words_index, results, called, returned, finalized,
                   core_vars>>

\* the loop body: the update is applied to the index,
Apply ==
    /\ thread = "apply"
    /\ LET update == popped[1].update
           after  == IF update.kind = "addition"
                     THEN apply_documents_addition(documents_index, words_index,
                                                   update.doc, update.title)
                     ELSE apply_documents_deletion(documents_index, words_index,
                                                   update.doc)
       IN  /\ documents_index' = after.documents
           /\ words_index' = after.words
    /\ thread' = "callback"
    /\ UNCHANGED <<tree, generated, subscription, popped, results, called,
                   returned, finalized, core_vars>>

\* then the update callback is called with its status,
Callback ==
    /\ thread = "callback"
    /\ called' = called \cup {popped[1].id}
    /\ thread' = "result"
    /\ UNCHANGED <<tree, generated, subscription, popped, documents_index,
                   words_index, results, returned, finalized, core_vars>>

\* then the status is stored, where update_status finds it
StoreResult ==
    /\ thread = "result"
    /\ results' = results \cup {popped[1].id}
    /\ popped' = <<>>
    /\ thread' = "pop_min"
    /\ UNCHANGED <<tree, generated, subscription, documents_index,
                   words_index, called, returned, finalized, core_vars>>

\* subscription.filter(event_is_set).next() returns; the subscriber is dropped
Wake ==
    /\ thread = "blocked"
    /\ subscription = "set"
    /\ subscription' = "none"
    /\ thread' = "subscribe"
    /\ UNCHANGED <<tree, generated, popped, documents_index, words_index,
                   results, called, returned, finalized, core_vars>>

NextUpdates ==
    \/ FinalizeAddition \/ FinalizeDeletion \/ UpdateStatusBlocking
    \/ Subscribe \/ PopMin \/ PopMinNone \/ Apply \/ Callback
    \/ StoreResult \/ Wake

SpecUpdates == InitUpdates /\ [][NextUpdates]_vars

(***************************************************************************)
(* Properties of the update system                                         *)
(***************************************************************************)
\* no update finalized after update u is about the document of u
Latest(u) ==
    \A v \in (u + 1)..Len(finalized) : finalized[v].doc # finalized[u].doc

Replaces(u, v) ==
    /\ v < u
    /\ finalized[v].kind = "addition" /\ finalized[u].kind = "addition"
    /\ finalized[v].doc = finalized[u].doc
    /\ finalized[v].title # finalized[u].title
    /\ \A x \in (v + 1)..(u - 1) : finalized[x].doc # finalized[u].doc

Columns == <<"query_index", "distance", "attribute", "word_index", "is_exact">>

\* the rows the columns are filled with
ColumnRows ==
    [query_index : {0, 1}, distance : {0, 1}, attribute : {0},
     word_index : {0}, is_exact : {TRUE}]

\* the columns a key is computed from
KeyColumns == {"query_index", "distance"}

\* the five columns holding the rows
columns_of(rows) ==
    [c \in {Columns[k] : k \in DOMAIN Columns} |->
        [i \in DOMAIN rows |-> rows[i][c]]]

\* permutations_unstable_by_key(len, f): (0..len).collect() sorted by
\* sort_unstable_by_key(|&i| f(i)), indices of equal key in any order
permutations_unstable_by_key(len, f) ==
    {p \in Reorderings([i \in 1..len |-> i - 1]) :
        \A i, j \in 1..len : i < j => f[p[i]] <= f[p[j]]}

\* (variant: element j goes to place permutations[j])
apply_permutations_scatter(permutations, vec) ==
    [j \in 1..Len(permutations) |->
        vec[CHOOSE k \in 1..Len(permutations) : permutations[k] = j - 1]]

\* apply_permutations(permutations, vec): the new vector holds vec[i] for
\* every i of permutations, in that order
apply_permutations(permutations, vec) ==
    [j \in 1..Len(permutations) |-> vec[permutations[j] + 1]]

InitSort ==
    /\ \E rows \in SeqsUpTo(ColumnRows, MaxMatches), key \in KeyColumns :
           sorter = [original     |-> columns_of(rows),
                     doc          |-> columns_of(rows),
                     key          |-> key,
                     permutations |-> <<>>,
                     applied      |-> 0,
                     pc           |-> "permutations"]
    /\ database = <<>>
    /\ main_index = <<>>
    /\ fields = <<>>
    /\ synonyms = <<>>
    /\ declarations = <<>>
    /\ rw = RewriteOff
    /\ EnhancerOff
    /\ RawOff
    /\ UpdatesOff

\* let permutations = permutations_unstable_by_key(len, |i| key[i])
SortPermutations ==
    /\ sorter.pc = "permutations"
    /\ \E p \in permutations_unstable_by_key(
                    Len(sorter.doc[sorter.key]),
                    [i \in 0..(Len(sorter.doc[sorter.key]) - 1) |->
                        sorter.doc[sorter.key][i + 1]]) :
           sorter' = [sorter EXCEPT !.permutations = p, !.pc = "apply"]
    /\ UNCHANGED <<database, main_index, fields, synonyms, declarations,
                   enhancer_vars, rw, raw_vars, updates_vars>>

\* apply_permutations(&permutations, &mut column) on the next column
ApplyPermutations ==
    /\ sorter.pc = "apply"
    /\ LET c == Columns[sorter.applied + 1]
       IN  sorter' =
               [sorter EXCEPT
                   !.doc[c] = apply_permutations(sorter.permutations, @),
                   !.applied = @ + 1,
                   !.pc = IF sorter.applied + 1 = Len(Columns)
                          THEN "done" ELSE "apply"]
    /\ UNCHANGED <<database, main_index, fields, synonyms, declarations,
                   enhancer_vars, rw, raw_vars, updates_vars>>

NextSort == SortPermutations \/ ApplyPermutations

SpecSort == InitSort /\ [][NextSort]_vars

\* row i of the columns cols
ColumnsRow(cols, i) == [c \in DOMAIN cols |-> cols[c][i]]

\* C21: the permutation computed holds every index below N exactly once and
\* the keys along it do not decrease; every column it was applied to has
\* the same length N and holds at j what it held at permutations[j]; once
\* it was applied to the five columns, row j is the row permutations[j] of
\* the columns as they were
C21_ColumnsPermutedTogether ==
    LET N == Len(sorter.original[sorter.key])
        p == sorter.permutations
    IN  sorter.pc # "permutations" =>
            /\ Len(p) = N
            /\ \A i \in 0..(N - 1) :
                   Cardinality({j \in 1..N : p[j] = i}) = 1
            /\ \A i, j \in 1..N :
                   i < j => sorter.original[sorter.key][p[i] + 1]
                               <= sorter.original[sorter.key][p[j] + 1]
            /\ \A k \in 1..sorter.applied :
                   /\ Len(sorter.doc[Columns[k]]) = N
                   /\ \A j \in 1..N :
                          sorter.doc[Columns[k]][j] =
                              sorter.original[Columns[k]][p[j] + 1]
            /\ sorter.pc = "done" =>
                   \A j \in 1..N :
                       ColumnsRow(sorter.doc, j) =
                           ColumnsRow(sorter.original, p[j] + 1)

\* three different rows have been sorted along a permutation that moves
\* every one of them
C21_Witness ==
    /\ sorter.pc = "done"
    /\ Len(sorter.permutations) = 3
    /\ \A j \in 1..3 : sorter.permutations[j] # j - 1
    /\ \A i, j \in 1..3 :
           i # j => ColumnsRow(sorter.doc, i) # ColumnsRow(sorter.doc, j)

(***************************************************************************)
(* The update system with a fairly scheduled update thread.                *)
(***************************************************************************)
ThreadNext ==
    \/ Subscribe \/ PopMin \/ PopMinNone \/ Apply \/ Callback
    \/ StoreResult \/ Wake

SpecUpdatesFair == SpecUpdates /\ WF_vars(ThreadNext)

InTree(update_id) == update_id \in {t.id : t \in tree}

\* C22: the thread is never blocked on a subscriber without a Set event
\* while the tree holds an update, and every update inserted into the tree
\* is eventually popped
C22_NoLostWakeUp ==
    /\ [](thread = "blocked" /\ tree # {} => subscription = "set")
    /\ \A update_id \in 1..MaxUpdates :
           InTree(update_id) ~> ~InTree(update_id)

\* an update was inserted after the thread found the tree empty: the thread
\* is blocked, the tree holds the update and the subscriber the Set event
C22_Witness ==
    /\ thread = "blocked"
    /\ tree # {}
    /\ subscription = "set"
    /\ results # {}

\* C23: for every real index a recorded range R holds, the last slot of R
\* included, replacement returns the range of the one index
\* origins[origin] + (real - R.start); no lookup ever yields a range whose
\* end bound is the real index looked up, so the branch that adds the
\* padding is never taken
C23_AlwaysOneIndex ==
    Built =>
        \A real \in 0..(TopReal + 1) :
            \A i \in query_point(real) :
                /\ real_to_origin[i].range.end # real
                /\ replacement(real) =
                       Only(origins[real_to_origin[i].value]
                            + (real - real_to_origin[i].range.start))
                /\ \A r \in replacement(real) : r.end - r.start = 1

\* a replacement of several words for a word that a declaration has
\* shifted: its last slot is replaced by one index
C23_Witness ==
    /\ Built
    /\ \E i \in DOMAIN real_to_origin :
           LET origin == real_to_origin[i].value
           IN  /\ i > Len(query)
               /\ RangeLen(real_to_origin[i].range) >= 2
               /\ origins[origin] > origin
               /\ replacement(LastSlot(i)) =
                      Only(origins[origin] + RangeLen(real_to_origin[i].range) - 1)

(***************************************************************************)
(* A builder on a query of MaxQuery + 1 words and two declarations with    *)
(* disjoint real ranges, which the caller makes in either order.           *)
(***************************************************************************)
\* replacement words: one word, repeated
UniformReplacements ==
    {[i \in 1..m |-> w] : m \in 1..MaxRepl, w \in Words}

InitCommute ==
    /\ query \in [1..(MaxQuery + 1) -> Words]
    /\ origins = new_origins(query)
    /\ real_to_origin = new_real_to_origin(query)
    /\ pc = "builder"
    /\ calls = <<>>
    /\ \E r1 \in QueryRanges, r2 \in QueryRanges,
          w1 \in UniformReplacements, w2 \in UniformReplacements :
           declarations =
               {[range |-> r1, real |-> Len(query), words |-> w1],
                [range |-> r2, real |-> Len(query) + Len(w1), words |-> w2]}
    /\ sorter = <<>>
    /\ database = <<>>
    /\ main_index = <<>>
    /\ fields = <<>>
    /\ synonyms = <<>>
    /\ rw = RewriteOff
    /\ RawOff
    /\ UpdatesOff

\* the declarations made so far
Made == {d \in declarations : \E c \in DOMAIN calls : calls[c].real = d.real}

\* any of the declarations not made yet is made
DeclareAny ==
    \E d \in declarations \ Made : Declare(d.range, d.real, d.words)

BuildAll == Made = declarations /\ Build

NextCommute == DeclareAny \/ BuildAll

SpecCommute == InitCommute /\ [][NextCommute]_vars

\* origins after the declarations of the sequence ds, made in that order
\* on a builder whose origins are orig
RECURSIVE origins_after(_, _)
origins_after(orig, ds) ==
    IF ds = <<>> THEN orig
    ELSE origins_after(
             IF rewrite_range_with(query, Head(ds).range, Head(ds).words)
             THEN shift_origins(orig, Head(ds).range,
                                Len(Head(ds).words) - RangeLen(Head(ds).range))
             ELSE orig,
             Tail(ds))

\* the orders the declarations can be made in
Orders ==
    {ds \in [1..Cardinality(declarations) -> declarations] :
        \A i, j \in DOMAIN ds : i # j => ds[i] # ds[j]}

\* C24: whichever order the declarations were made in, the enhancer built
\* has the origins that every order gives and the same recorded ranges, and
\* replacement gives one outcome for every recorded real index
C24_DeclarationsCommute ==
    Built =>
        /\ \A ds \in Orders : origins = origins_after(new_origins(query), ds)
        /\ {real_to_origin[i] : i \in DOMAIN real_to_origin} =
               {new_real_to_origin(query)[i] : i \in DOMAIN query} \cup
               {declare_element(d.range, d.real, d.words) : d \in declarations}
        /\ \A real \in DeclaredReals : Cardinality(replacement(real)) = 1

\* two accepted declarations of different growth that both shift the last
\* word, the one of smaller growth made last
C24_Witness ==
    /\ Built
    /\ Len(calls) = 2
    /\ calls[1].accepted /\ calls[2].accepted
    /\ calls[1].range.end < Len(query) /\ calls[2].range.end < Len(query)
    /\ calls[1].len - RangeLen(calls[1].range)
           > calls[2].len - RangeLen(calls[2].range)
    /\ calls[1].real > calls[2].real

(***************************************************************************)
(* Database::open_index and Database::create_index (meilidb-data,          *)
(* database/mod.rs) called concurrently on one Database.  The cache is     *)
(* behind an RwLock; the list of indexes and the schema of each index are  *)
(* persisted in the LMDB environment, which may hold indexes created       *)
(* before the Database was started.                                        *)
(***************************************************************************)
Callers == 1..MaxCallers
IndexNames == {"x", "y"}
Schemas == {"s1", "s2"}
NoSchema == "none"
NoIndex == 0
NoLock == 0

\* what a call has returned
NoResult == [kind |-> "none", index |-> NoIndex]
Ok(index) == [kind |-> "ok", index |-> index]
OkNone == [kind |-> "ok_none", index |-> NoIndex]
SchemaDiffer == [kind |-> "schema_differ", index |-> NoIndex]

\* Database::indexes(): None while the key is absent
NoIndexes == [some |-> FALSE, names |-> {}]
SomeIndexes(names) == [some |-> TRUE, names |-> names]

InitDatabase ==
    /\ \E persisted \in SUBSET IndexNames, schema \in [IndexNames -> Schemas] :
           database =
               [cache     |-> [n \in IndexNames |-> NoIndex],
                lock      |-> NoLock,
                instances |-> 0,
                indexes   |-> IF persisted = {} THEN NoIndexes
                              ELSE SomeIndexes(persisted),
                schemas   |-> [n \in IndexNames |->
                                  IF n \in persisted THEN schema[n] ELSE NoSchema],
                callers   |-> [t \in Callers |->
                                  [pc |-> "idle", op |-> "none", name |-> "x",
                                   schema |-> NoSchema, prev_schema |-> NoSchema,
                                   indexes |-> {}, result |-> NoResult]]]
    /\ sorter = <<>>
    /\ main_index = <<>>
    /\ fields = <<>>
    /\ synonyms = <<>>
    /\ declarations = <<>>
    /\ rw = RewriteOff
    /\ EnhancerOff
    /\ RawOff
    /\ UpdatesOff

database_frame ==
    UNCHANGED <<sorter, main_index, fields, synonyms, declarations,
                enhancer_vars, rw, raw_vars, updates_vars>>

Caller(t) == database.callers[t]

\* the call returns r and the guard of the write lock, if held, is dropped
Return(t, r) ==
    [database EXCEPT !.callers[t].pc = "done",
                     !.callers[t].result = r,
                     !.lock = IF @ = t THEN NoLock ELSE @]

\* Index::from_raw(raw_index) and vacant.insert(Arc::new(index)).clone()
Insert(t) ==
    LET index == database.instances + 1
    IN  [Return(t, Ok(index)) EXCEPT !.instances = index,
                                     !.cache[Caller(t).name] = index]

\* (variant: the body of create_index is entered without the write lock)
CreateUnlocked(t) ==
    /\ Caller(t).pc = "idle"
    /\ \E name \in IndexNames, schema \in Schemas :
           database' =
               [database EXCEPT
                   !.callers[t].pc = "create_entry",
                   !.callers[t].op = "create_index",
                   !.callers[t].name = name,
                   !.callers[t].schema = schema,
                   !.callers[t].prev_schema = database.schemas[name]]
    /\ database_frame

\* create_index(name, schema): self.cache.write()
CreateLock(t) ==
    /\ Caller(t).pc = "idle"
    /\ database.lock = NoLock
    /\ \E name \in IndexNames, schema \in Schemas :
           database' =
               [database EXCEPT
                   !.lock = t,
                   !.callers[t].pc = "create_entry",
                   !.callers[t].op = "create_index",
                   !.callers[t].name = name,
                   !.callers[t].schema = schema,
                   !.callers[t].prev_schema = database.schemas[name]]
    /\ database_frame

\* (variant: an occupied entry is replaced by a new index)
CreateReplace(t) ==
    /\ Caller(t).pc = "create_entry"
    /\ database.cache[Caller(t).name] # NoIndex
    /\ database' = Insert(t)
    /\ database_frame

\* Entry::Occupied: the cached index is returned
CreateOccupied(t) ==
    /\ Caller(t).pc = "create_entry"
    /\ database.cache[Caller(t).name] # NoIndex
    /\ database' = Return(t, Ok(database.cache[Caller(t).name]))
    /\ database_frame

\* Entry::Vacant, main.schema() is Some(prev_schema) and prev_schema != schema
CreateSchemaDiffer(t) ==
    /\ Caller(t).pc = "create_entry"
    /\ database.cache[Caller(t).name] = NoIndex
    /\ database.schemas[Caller(t).name] \notin {NoSchema, Caller(t).schema}
    /\ database' = Return(t, SchemaDiffer)
    /\ database_frame

\* Entry::Vacant: main.set_schema(&schema)
CreateSetSchema(t) ==
    /\ Caller(t).pc = "create_entry"
    /\ database.cache[Caller(t).name] = NoIndex
    /\ database.schemas[Caller(t).name] \in {NoSchema, Caller(t).schema}
    /\ database' =
           [database EXCEPT !.schemas[Caller(t).name] = Caller(t).schema,
                            !.callers[t].pc = "create_indexes"]
    /\ database_frame

\* let mut indexes = self.indexes()?.unwrap_or_else(HashSet::new);
\* indexes.insert(name.to_string())
CreateIndexes(t) ==
    /\ Caller(t).pc = "create_indexes"
    /\ database' =
           [database EXCEPT
               !.callers[t].indexes =
                   database.indexes.names \cup {Caller(t).name},
               !.callers[t].pc = "create_set_indexes"]
    /\ database_frame

\* self.set_indexes(&indexes)
CreateSetIndexes(t) ==
    /\ Caller(t).pc = "create_set_indexes"
    /\ database' =
           [database EXCEPT !.indexes = SomeIndexes(Caller(t).indexes),
                            !.callers[t].pc = "create_insert"]
    /\ database_frame

CreateInsert(t) ==
    /\ Caller(t).pc = "create_insert"
    /\ database' = Insert(t)
    /\ database_frame

\* open_index(name): the lookup under self.cache.read()
OpenRead(t) ==
    /\ Caller(t).pc = "idle"
    /\ database.lock = NoLock
    /\ \E name \in IndexNames :
           LET begun == [database EXCEPT !.callers[t].op = "open_index",
                                          !.callers[t].name = name]
           IN  database' =
                   IF database.cache[name] # NoIndex
                   THEN [begun EXCEPT !.callers[t].pc = "done",
                                       !.callers[t].result =
                                           Ok(database.cache[name])]
                   ELSE [begun EXCEPT !.callers[t].pc = "open_write"]
    /\ database_frame

\* self.cache.write()
OpenLock(t) ==
    /\ Caller(t).pc = "open_write"
    /\ database.lock = NoLock
    /\ database' = [database EXCEPT !.lock = t,
                                    !.callers[t].pc = "open_entry"]
    /\ database_frame

\* Entry::Occupied: the cached index is returned
OpenOccupied(t) ==
    /\ Caller(t).pc = "open_entry"
    /\ database.cache[Caller(t).name] # NoIndex
    /\ database' = Return(t, Ok(database.cache[Caller(t).name]))
    /\ database_frame

\* Entry::Vacant and the name is not in self.indexes(): Ok(None)
OpenNone(t) ==
    /\ Caller(t).pc = "open_entry"
    /\ database.cache[Caller(t).name] = NoIndex
    /\ Caller(t).name \notin database.indexes.names
    /\ database' = Return(t, OkNone)
    /\ database_frame

\* Entry::Vacant and the name is in self.indexes(): the index is opened
OpenInsert(t) ==
    /\ Caller(t).pc = "open_entry"
    /\ database.cache[Caller(t).name] = NoIndex
    /\ Caller(t).name \in database.indexes.names
    /\ database' = Insert(t)
    /\ database_frame

NextDatabase ==
    \E t \in Callers :
        \/ CreateLock(t) \/ CreateOccupied(t) \/ CreateSchemaDiffer(t)
        \/ CreateSetSchema(t) \/ CreateIndexes(t) \/ CreateSetIndexes(t)
        \/ CreateInsert(t)
        \/ OpenRead(t) \/ OpenLock(t) \/ OpenOccupied(t) \/ OpenNone(t)
        \/ OpenInsert(t)

SpecDatabase == InitDatabase /\ [][NextDatabase]_vars

(***************************************************************************)
(* Properties of Database                                                  *)
(***************************************************************************)
Done(t, op) == Caller(t).pc = "done" /\ Caller(t).op = op

\* the names the persisted list of indexes holds, the names in the cache
Persisted == database.indexes.names
Cached == {n \in IndexNames : database.cache[n] # NoIndex}

\* C25: a create_index that has returned Ok left the schema it was passed
\* stored for the index, and a create_index for an index that had another
\* schema stored has returned Error::SchemaDiffer
C25_CreateStoresSchema ==
    \A t \in Callers :
        Done(t, "create_index") =>
            /\ Caller(t).result.kind = "ok" =>
                   database.schemas[Caller(t).name] = Caller(t).schema
            /\ Caller(t).prev_schema \notin {NoSchema, Caller(t).schema} =>
                   Caller(t).result = SchemaDiffer

\* create_index has returned Ok with the cached index of another schema
C25_OkWithOtherSchema ==
    \E t \in Callers :
        /\ Done(t, "create_index")
        /\ Caller(t).result.kind = "ok"
        /\ Caller(t).prev_schema \notin {NoSchema, Caller(t).schema}
        /\ database.schemas[Caller(t).name] = Caller(t).prev_schema

\* C26, states: as many Index instances were made as the cache has entries;
\* the calls that returned an index for one name returned the same one, the
\* one in the cache, and the name is in the persisted list
C26_OneIndexPerName ==
    /\ database.instances = Cardinality(Cached)
    /\ \A t \in Callers :
           (Caller(t).pc = "done" /\ Caller(t).result.kind = "ok") =>
               /\ Caller(t).result.index = database.cache[Caller(t).name]
               /\ Caller(t).name \in Persisted
    /\ \A t, u \in Callers :
           (/\ Caller(t).pc = "done" /\ Caller(t).result.kind = "ok"
            /\ Caller(u).pc = "done" /\ Caller(u).result.kind = "ok"
            /\ Caller(t).name = Caller(u).name) =>
               Caller(t).result.index = Caller(u).result.index

\* C26, steps: an entry of the cache is never replaced or removed, and an
\* open_index that returns None was for a name that is not in the persisted
\* list and leaves the cache as it is
C26_CacheStep ==
    /\ \A n \in Cached : database'.cache[n] = database.cache[n]
    /\ \A t \in Callers :
           (Caller(t).pc # "done" /\ database'.callers[t].result = OkNone) =>
               /\ Caller(t).name \notin Persisted
               /\ database'.cache = database.cache

\* C26: at most one Index per name
C26_OneSharedIndex == []C26_OneIndexPerName /\ [][C26_CacheStep]_vars

\* an open_index that missed the cache and a create_index of the same name
\* have returned the same index, the only one made
C26_Witness ==
    /\ \E t, u \in Callers :
           /\ Done(t, "open_index") /\ Done(u, "create_index")
           /\ Caller(t).name = Caller(u).name
           /\ Caller(t).result.kind = "ok"
           /\ Caller(t).result = Caller(u).result
    /\ database.instances = 1
    /\ database.lock = NoLock

\* C27, states: every name in the cache, and the name of every create_index
\* that returned Ok, is in the persisted list
C27_CreatedArePersisted ==
    /\ Cached \subseteq Persisted
    /\ \A t \in Callers :
           (Done(t, "create_index") /\ Caller(t).result.kind = "ok") =>
               Caller(t).name \in Persisted

\* C27, steps: the persisted list never loses a name
C27_PersistedStep == Persisted \subseteq database'.indexes.names

\* C27: concurrent create_index calls do not lose an entry of the list
C27_NoLostIndex == []C27_CreatedArePersisted /\ [][C27_PersistedStep]_vars

\* two create_index calls for different names, on a Database without
\* indexes, have both made their index
C27_Witness ==
    /\ \A t \in Callers :
           Done(t, "create_index") /\ Caller(t).result.kind = "ok"
    /\ Cardinality({Caller(t).name : t \in Callers}) = 2
    /\ database.instances = 2
    /\ Persisted = IndexNames

(***************************************************************************)
(* MainIndex (meilidb-data, database/main_index.rs): the schema, the words *)
(* set and the ranked map of an index, each stored as bytes under a key    *)
(* of one LMDB database.                                                   *)
(***************************************************************************)
MaxValue == 2
Values == 1..MaxValue
NoBytes == <<>>
NoValue == 0

\* the keys the functions of MainIndex name
MainKeys == {"schema", "words", "ranked-map", "ranked_map"}
Getters == {"schema", "words_set", "ranked_map"}

\* Schema::write_to_bin and RankedMap::write_to_bin, and their read_from_bin
\* (a value is written as its one byte)
write_to_bin(value) == <<value>>
read_from_bin(bytes) == Head(bytes)
\* fst::Set::as_fst().as_bytes() and Fst::from_shared_bytes(value, 0, len)
as_bytes(value) == <<value>>
from_shared_bytes(bytes, len) == SubSeq(bytes, 1, len)[1]

\* the result of a getter: Ok(None), Ok(Some(value))
None == [some |-> FALSE, value |-> NoValue]
Some(value) == [some |-> TRUE, value |-> value]
NoGetter == [getter |-> "none", result |-> None]

InitMain ==
    /\ main_index = [store   |-> [k \in MainKeys |-> NoBytes],
                     written |-> [g \in Getters |-> NoValue],
                     last    |-> NoGetter]
    /\ sorter = <<>>
    /\ database = <<>>
    /\ fields = <<>>
    /\ synonyms = <<>>
    /\ declarations = <<>>
    /\ rw = RewriteOff
    /\ EnhancerOff
    /\ RawOff
    /\ UpdatesOff

main_frame ==
    UNCHANGED <<sorter, database, fields, synonyms, declarations,
                enhancer_vars, rw, raw_vars, updates_vars>>

\* access.put(&self.0, key, &bytes, Flags::empty()); txn.commit()
\* written[setter] keeps the value the caller passed to the setter
put(setter, key, bytes, value) ==
    [main_index EXCEPT !.store[key] = bytes,
                       !.written[setter] = value,
                       !.last = NoGetter]

\* access.get(&self.0, key).to_opt(): the bytes, or none for an absent key
get(getter, key, value) ==
    [main_index EXCEPT
        !.last = [getter |-> getter,
                  result |-> IF main_index.store[key] = NoBytes THEN None
                             ELSE Some(value)]]

schema ==
    /\ main_index' =
           get("schema", "schema", read_from_bin(main_index.store["schema"]))
    /\ main_frame

set_schema ==
    /\ \E value \in Values :
           main_index' = put("schema", "schema", write_to_bin(value), value)
    /\ main_frame

words_set ==
    /\ LET bytes == main_index.store["words"]
       IN  main_index' =
               get("words_set", "words", from_shared_bytes(bytes, Len(bytes)))
    /\ main_frame

set_words_set ==
    /\ \E value \in Values :
           main_index' = put("words_set", "words", as_bytes(value), value)
    /\ main_frame

ranked_map ==
    /\ main_index' =
           get("ranked_map", "ranked-map",
               read_from_bin(main_index.store["ranked-map"]))
    /\ main_frame

set_ranked_map ==
    /\ \E value \in Values :
           main_index' =
               put("ranked_map", "ranked_map", write_to_bin(value), value)
    /\ main_frame

NextMain ==
    \/ schema \/ set_schema
    \/ words_set \/ set_words_set
    \/ ranked_map \/ set_ranked_map

SpecMain == InitMain /\ [][NextMain]_vars

\* C28: a getter called after its setter returns Some of the value the
\* last call of the setter was passed
C28_GettersReadBack ==
    \A g \in Getters :
        (main_index.last.getter = g /\ main_index.written[g] # NoValue) =>
            main_index.last.result = Some(main_index.written[g])

\* ranked_map() has returned None after a set_ranked_map
C28_RankedMapIsNotReadBack ==
    /\ main_index.last.getter = "ranked_map"
    /\ main_index.written["ranked_map"] # NoValue
    /\ main_index.last.result = None
    /\ main_index.store["ranked_map"] # NoBytes

(***************************************************************************)
(* DocumentsIndex (meilidb-data, database/documents_index.rs): the fields  *)
(* of the documents, one LMDB entry per (document id, attribute).          *)
(***************************************************************************)
MaxAttr == 1
SchemaAttrs == 0..MaxAttr
FieldIds == {1, 2}
FieldValues == {"v", "w"}
NoField == "none"

\* DocumentAttrKey::new(id, attr): the key of one field
DocumentAttrKey(id, attr) == <<id, attr>>
FieldKeys == {DocumentAttrKey(id, attr) : id \in FieldIds, attr \in SchemaAttrs}

\* RangeInclusive::new(self.first_attr.0, self.last_attr.0)
RangeInclusive(first, last) ==
    {attr \in SchemaAttrs : first <= attr /\ attr <= last}

\* self.first_attr.0..self.last_attr.0, the attributes the loop of
\* del_all_document_fields goes over
del_all_range(first, last) ==
    {attr \in SchemaAttrs : first <= attr /\ attr < last}

\* DocumentFieldsIter: the (attribute, value) pairs next() returns, in the
\* order of raw_iter; an attribute without a value is skipped
RECURSIVE fields_from(_, _, _)
fields_from(store, id, attr) ==
    IF attr \notin RangeInclusive(fields.first_attr, fields.last_attr) THEN <<>>
    ELSE LET value == store[DocumentAttrKey(id, attr)]
             rest == fields_from(store, id, attr + 1)
         IN  IF value = NoField THEN rest ELSE <<<<attr, value>>>> \o rest

document_fields_of(store, id) == fields_from(store, id, fields.first_attr)

NoCall == [op |-> "none", id |-> 0, ok |-> TRUE, yielded |-> <<>>,
           before |-> <<>>]

InitFields ==
    /\ \E first \in SchemaAttrs, last \in SchemaAttrs :
           /\ first <= last
           /\ fields = [database   |-> [k \in FieldKeys |-> NoField],
                        first_attr |-> first,
                        last_attr  |-> last,
                        call       |-> NoCall]
    /\ sorter = <<>>
    /\ database = <<>>
    /\ main_index = <<>>
    /\ synonyms = <<>>
    /\ declarations = <<>>
    /\ rw = RewriteOff
    /\ EnhancerOff
    /\ RawOff
    /\ UpdatesOff

fields_frame ==
    UNCHANGED <<sorter, database, main_index, synonyms, declarations,
                enhancer_vars, rw, raw_vars, updates_vars>>

set_document_field ==
    /\ \E id \in FieldIds, attr \in SchemaAttrs, value \in FieldValues :
           fields' =
               [fields EXCEPT
                   !.database[DocumentAttrKey(id, attr)] = value,
                   !.call = [NoCall EXCEPT !.op = "set_document_field",
                                           !.id = id]]
    /\ fields_frame

\* access.del_key(..)? is an error (NOTFOUND) for a key that is not stored,
\* and the transaction is then dropped without a commit
del_document_field ==
    /\ \E id \in FieldIds, attr \in SchemaAttrs :
           LET key == DocumentAttrKey(id, attr)
               found == fields.database[key] # NoField
           IN  fields' =
                   [fields EXCEPT
                       !.database[key] = NoField,
                       !.call = [NoCall EXCEPT !.op = "del_document_field",
                                               !.id = id, !.ok = found]]
    /\ fields_frame

del_all_document_fields ==
    /\ \E id \in FieldIds :
           LET attrs == del_all_range(fields.first_attr, fields.last_attr)
               found == \A attr \in attrs :
                            fields.database[DocumentAttrKey(id, attr)] # NoField
           IN  fields' =
                   [fields EXCEPT
                       !.database =
                           IF found
                           THEN [k \in FieldKeys |->
                                    IF k[1] = id /\ k[2] \in attrs
                                    THEN NoField ELSE @[k]]
                           ELSE @,
                       !.call = [NoCall EXCEPT
                                    !.op = "del_all_document_fields",
                                    !.id = id, !.ok = found,
                                    !.before = fields.database]]
    /\ fields_frame

document_fields ==
    /\ \E id \in FieldIds :
           fields' =
               [fields EXCEPT
                   !.call = [NoCall EXCEPT
                                !.op = "document_fields", !.id = id,
                                !.yielded =
                                    document_fields_of(fields.database, id)]]
    /\ fields_frame

NextFields ==
    \/ set_document_field \/ del_document_field
    \/ del_all_document_fields \/ document_fields

SpecFields == InitFields /\ [][NextFields]_vars

\* C29: when del_all_document_fields(id) has returned Ok, document_fields(id)
\* yields no field and the fields of the other documents are as before
C29_AllFieldsDeleted ==
    (fields.call.op = "del_all_document_fields" /\ fields.call.ok) =>
        /\ document_fields_of(fields.database, fields.call.id) = <<>>
        /\ \A id \in FieldIds \ {fields.call.id} :
               document_fields_of(fields.database, id)
                   = document_fields_of(fields.call.before, id)

\* del_all_document_fields(id) has returned Ok and has deleted fields, and
\* the field of last_attr is still stored
C29_LastAttrIsLeft ==
    /\ fields.call.op = "del_all_document_fields" /\ fields.call.ok
    /\ fields.first_attr < fields.last_attr
    /\ fields.database # fields.call.before
    /\ Len(document_fields_of(fields.database, fields.call.id)) = 1
    /\ document_fields_of(fields.database, fields.call.id)[1][1]
           = fields.last_attr

(***************************************************************************)
(* FinalSynonymsAddition (meilidb-data, database/synonyms_addition.rs):    *)
(* add_synonym collects alternatives per synonym, finalize stores them in  *)
(* the SynonymsIndex and adds the synonyms to the synonyms set of the      *)
(* MainIndex.                                                              *)
(***************************************************************************)
MaxAlternatives == 2

\* what callers pass, and the order of the lower-case alternatives
SynonymInputs == {"NYC", "nyc", "sf"}
AlternativeInputs == {"LA", "la", "bay"}
Alphabet == <<"bay", "la">>

\* normalize_str(synonym.as_ref())
normalize_str(synonym) == IF synonym = "NYC" THEN "nyc" ELSE synonym
\* s.as_ref().to_lowercase()
to_lowercase(s) == IF s = "LA" THEN "la" ELSE s

Synonyms == {normalize_str(synonym) : synonym \in SynonymInputs}

\* an entry of a map: absent, or the words stored for the key
NoEntry == [some |-> FALSE, words |-> <<>>]
Entry(words) == [some |-> TRUE, words |-> words]

\* SetBuf::from_dirty(alternatives): sorted, without duplicates
from_dirty(alternatives) ==
    LET words == {alternatives[i] : i \in DOMAIN alternatives}
    IN  SelectSeq(Alphabet, LAMBDA word : word \in words)

\* SynonymsIndex::set_alternatives_to(synonym, alternatives): the entry of
\* the synonym becomes the alternatives
set_alternatives_to(stored, synonym, alternatives) ==
    [stored EXCEPT ![synonym] = Entry(alternatives)]

InitSynonyms ==
    /\ synonyms = [set          |-> NoEntry,
                   alternatives |-> [k \in Synonyms |-> NoEntry],
                   addition     |-> [k \in Synonyms |-> NoEntry],
                   finalized    |-> FALSE,
                   before       |-> <<>>]
    /\ sorter = <<>>
    /\ database = <<>>
    /\ main_index = <<>>
    /\ fields = <<>>
    /\ declarations = <<>>
    /\ rw = RewriteOff
    /\ EnhancerOff
    /\ RawOff
    /\ UpdatesOff

synonyms_frame ==
    UNCHANGED <<sorter, database, main_index, fields, declarations,
                enhancer_vars, rw, raw_vars, updates_vars>>

\* self.synonyms.entry(synonym).or_insert_with(Vec::new).extend(alternatives)
add_synonym ==
    /\ \E synonym \in SynonymInputs, n \in 0..MaxAlternatives :
       \E alternatives \in [1..n -> AlternativeInputs] :
           LET key == normalize_str(synonym)
               lowered == [i \in 1..n |-> to_lowercase(alternatives[i])]
               vec == synonyms.addition[key].words
           IN  /\ Len(vec) + n <= MaxAlternatives
               /\ synonyms' =
                      [synonyms EXCEPT !.addition[key] = Entry(vec \o lowered),
                                       !.finalized = FALSE,
                                       !.before = <<>>]
    /\ synonyms_frame

\* the entries of the SynonymsIndex after the loop over self.synonyms
RECURSIVE store_alternatives(_, _, _)
store_alternatives(stored, addition, keys) ==
    IF keys = {} THEN stored
    ELSE LET synonym == CHOOSE k \in keys : TRUE
         IN  store_alternatives(
                 IF addition[synonym].some
                 THEN set_alternatives_to(stored, synonym,
                                          from_dirty(addition[synonym].words))
                 ELSE stored,
                 addition, keys \ {synonym})

\* finalize(self); the next addition starts from FinalSynonymsAddition::new
finalize ==
    /\ LET delta_synonyms == {k \in Synonyms : synonyms.addition[k].some}
           union == IF synonyms.set.some
                    THEN synonyms.set.words \cup delta_synonyms
                    ELSE delta_synonyms
       IN  synonyms' =
               [set          |-> Entry(union),
                alternatives |-> store_alternatives(synonyms.alternatives,
                                                    synonyms.addition, Synonyms),
                addition     |-> [k \in Synonyms |-> NoEntry],
                finalized    |-> TRUE,
                before       |-> [set |-> synonyms.set,
                                  alternatives |-> synonyms.alternatives]]
    /\ synonyms_frame

NextSynonyms == add_synonym \/ finalize

SpecSynonyms == InitSynonyms /\ [][NextSynonyms]_vars

Elements(words) == {words[i] : i \in DOMAIN words}
Place(word) == CHOOSE i \in DOMAIN Alphabet : Alphabet[i] = word
SortedSet(words) ==
    \A i, j \in DOMAIN words : i < j => Place(words[i]) < Place(words[j])

\* the synonyms stored before are in the set after a finalize
KeysAreKept ==
    synonyms.finalized =>
        (synonyms.before.set.some =>
            synonyms.before.set.words \subseteq synonyms.set.words)

\* the alternatives stored for a synonym before are stored after a finalize
AlternativesAreKept ==
    synonyms.finalized =>
        \A k \in Synonyms :
            synonyms.before.alternatives[k].some =>
                /\ synonyms.alternatives[k].some
                /\ Elements(synonyms.before.alternatives[k].words)
                       \subseteq Elements(synonyms.alternatives[k].words)

\* every synonym of the set has an entry of sorted alternatives
AlternativesAreSets ==
    synonyms.set.some =>
        \A k \in synonyms.set.words :
            /\ synonyms.alternatives[k].some
            /\ SortedSet(synonyms.alternatives[k].words)

\* C30: a synonyms addition only adds: after a finalize the synonyms and
\* the alternatives stored before are still stored, and every synonym of the
\* set has a sorted, duplicate-free entry of alternatives
C30_AdditionOnlyAdds ==
    KeysAreKept /\ AlternativesAreKept /\ AlternativesAreSets

\* a finalize has replaced the alternatives of a synonym by other ones
C30_AlternativesReplaced ==
    /\ synonyms.finalized
    /\ \E k \in Synonyms :
           /\ synonyms.before.alternatives[k].some
           /\ synonyms.alternatives[k].some
           /\ \E word \in Elements(synonyms.before.alternatives[k].words) :
                  word \notin Elements(synonyms.alternatives[k].words)

=============================================================================
